---- MODULE Spec2Model ----
(***************************************************************************)
(* Model of the fluent HTTP request builder of package www (request.go).   *)
(* The repository carries two revisions of request.go; they differ in Do  *)
(* (what the short-circuit Response carries) and in AttachFiles (how the   *)
(* file sources are closed).  `variant` selects the revision.             *)
(***************************************************************************)
EXTENDS Integers, Sequences, FiniteSets, TLC

\* ------------------------------------------------------------- bounds
\* Number of field names a map passed to AttachFiles may use.
NumFields == 2

\* ------------------------------------------------------------- values
Variants == {1, 2}

\* error values: the nil error and the errors the handlers can record
NilErr == [kind |-> "nil", at |-> ""]
Err(kind, at) == [kind |-> kind, at |-> at]
ErrorEmptyListValues == [kind |-> "an empty list of values is passed to create multipart content", at |-> ""]

\* readers a caller can hand to the builder
Files   == {"F1", "F2"}          \* *os.File
Closers == Files                 \* the readers that can be closed
Readers == Files \cup {"R1"}     \* values that implement io.Reader
NotAReader == "int"              \* a value that is no io.Reader

\* filepath.Base(f.Name()) for the files of the model
FilePath == [F1 |-> "/tmp/up/a.txt", F2 |-> "b.png"]
Base(path) == IF path = "/tmp/up/a.txt" THEN "a.txt" ELSE path

\* the body reader of the builder
NoBody == [kind |-> "nil", text |-> "", rid |-> "", parts |-> <<>>]
StringsReader(s) == [kind |-> "strings", text |-> s, rid |-> "", parts |-> <<>>]
BytesReader(s)   == [kind |-> "bytes", text |-> s, rid |-> "", parts |-> <<>>]
CallerReader(r)  == [kind |-> "reader", text |-> "", rid |-> r, parts |-> <<>>]
Buffer(parts)    == [kind |-> "buffer", text |-> "", rid |-> "", parts |-> parts]

\* closeReader(reader): closes the reader when it can be closed
closeReader(reader, cl) == IF reader \in Closers THEN cl \cup {reader} ELSE cl
closeBody(b, cl) == IF b.kind = "reader" THEN closeReader(b.rid, cl) ELSE cl

\* ------------------------------------------------------------- url.Values
Keys == <<"a", "b">>             \* in the order Encode sorts them
QueryEscape(v) == CASE v = "x y" -> "x+y"
                    [] v = "p&q" -> "p%26q"
                    [] OTHER     -> v

RECURSIVE EncodeVals(_, _, _)
EncodeVals(k, vs, i) ==
  IF i > Len(vs) THEN <<>>
  ELSE <<k \o "=" \o QueryEscape(vs[i])>> \o EncodeVals(k, vs, i + 1)

RECURSIVE EncodePairs(_, _)
EncodePairs(v, i) ==
  IF i > Len(Keys) THEN <<>>
  ELSE (IF Keys[i] \in DOMAIN v THEN EncodeVals(Keys[i], v[Keys[i]], 1) ELSE <<>>)
       \o EncodePairs(v, i + 1)

RECURSIVE Join(_, _)
Join(ss, sep) ==
  IF Len(ss) = 0 THEN ""
  ELSE IF Len(ss) = 1 THEN ss[1]
  ELSE ss[1] \o sep \o Join(Tail(ss), sep)

\* url.Values.Encode: "k=v" pairs, keys sorted, values escaped, joined by "&"
Encode(v) == Join(EncodePairs(v, 1), "&")

ValuesInputs ==
  { [k \in {} |-> <<>>],
    [k \in {"a", "b"} |-> IF k = "a" THEN <<"x y", "1">> ELSE <<"p&q">>] }

\* ------------------------------------------------------------- json.Marshal
JsonInputs == {"int:1", "str:a", "chan"}
Marshal(data) ==
  CASE data = "null"  -> [ok |-> TRUE, text |-> "null", err |-> NilErr]
    [] data = "int:1" -> [ok |-> TRUE, text |-> "1", err |-> NilErr]
    [] data = "str:a" -> [ok |-> TRUE, text |-> "\"a\"", err |-> NilErr]
    [] OTHER          -> [ok |-> FALSE, text |-> "",
                          err |-> Err("json: unsupported type", data)]

\* ------------------------------------------------------------- state
VARIABLES
  variant,      \* which revision of request.go is running
  err,          \* Request.err
  body,         \* Request.body
  params,       \* Request.params
  mime,         \* Request.mime
  cookies,      \* Request.cookies
  Request,      \* the embedded *http.Request
  closed,       \* the readers that have been closed
  clientCalled, \* client.Do has been invoked
  response,     \* the Response the last Do returned
  panicked,     \* a handler ended in a run-time panic
  files,        \* the map the caller passes to AttachFiles
  last          \* the last call made on the builder and its arguments

vars == <<variant, err, body, params, mime, cookies, Request, closed,
          clientCalled, response, panicked, files, last>>

NoHeaders == [k \in {} |-> <<>>]
NilRequest == [built |-> FALSE, method |-> "", uri |-> "", query |-> "",
               header |-> NoHeaders, body |-> NoBody, nopCloser |-> FALSE,
               cookies |-> <<>>]
NilResponse == "nil"
NoResponse == [Response |-> NilResponse, err |-> NilErr]

\* the record of a call: its name, and the arguments and the exit path the
\* properties speak about
Call(op) == [op |-> op, reader |-> "", data |-> "",
             order |-> <<>>, method |-> "", uri |-> "", headers |-> <<>>,
             outcome |-> ""]

\* A behaviour follows one builder until it has handed a request to the
\* client or a handler has panicked.
Live == ~panicked /\ ~clientCalled

InitBuilder ==
  /\ variant \in Variants
  /\ err = NilErr
  /\ body = NoBody
  /\ params = ""
  /\ mime = ""
  /\ cookies = <<>>
  /\ Request = NilRequest
  /\ closed = {}
  /\ clientCalled = FALSE
  /\ response = NoResponse
  /\ panicked = FALSE
  /\ last = Call("NewRequest")

\* ------------------------------------------------------------- handlers
CookieInputs == { <<>>, <<"sid", "lang">> }

SetCookies(cs) ==
  /\ Live
  /\ cookies' = cs
  /\ last' = Call("SetCookies")
  /\ UNCHANGED <<variant, err, body, params, mime, Request, closed,
                 clientCalled, response, panicked, files>>

With(ps, data) ==
  /\ Live
  /\ params' = Encode(ps)
  /\ body' = StringsReader(Encode(data))
  /\ mime' = "application/x-www-form-urlencoded"
  /\ last' = Call("With")
  /\ UNCHANGED <<variant, err, cookies, Request, closed, clientCalled,
                 response, panicked, files>>

WithQuery(ps) ==
  /\ Live
  /\ params' = Encode(ps)
  /\ last' = Call("WithQuery")
  /\ UNCHANGED <<variant, err, body, mime, cookies, Request, closed,
                 clientCalled, response, panicked, files>>

WithForm(data) ==
  /\ Live
  /\ mime' = "application/x-www-form-urlencoded"
  /\ body' = StringsReader(Encode(data))
  /\ last' = Call("WithForm")
  /\ UNCHANGED <<variant, err, params, cookies, Request, closed, clientCalled,
                 response, panicked, files>>

\* Json with the content type set before the encoding is checked
JsonMimeFirst(data) ==
  /\ Live
  /\ LET m == Marshal(data) IN
       /\ mime' = "application/json"
       /\ IF ~m.ok
          THEN err' = m.err /\ UNCHANGED body
          ELSE body' = BytesReader(m.text) /\ UNCHANGED err
  /\ last' = [Call("Json") EXCEPT !.data = data]
  /\ UNCHANGED <<variant, params, cookies, Request, closed, clientCalled,
                 response, panicked, files>>

Json(data) ==
  /\ Live
  /\ LET m == Marshal(data) IN
       IF ~m.ok
       THEN /\ err' = m.err
            /\ UNCHANGED <<mime, body>>
       ELSE /\ mime' = "application/json"
            /\ body' = BytesReader(m.text)
            /\ UNCHANGED err
  /\ last' = [Call("Json") EXCEPT !.data = data]
  /\ UNCHANGED <<variant, params, cookies, Request, closed, clientCalled,
                 response, panicked, files>>

WithFile(reader) ==
  /\ Live
  /\ mime' = "binary/octet-stream"
  /\ body' = CallerReader(reader)
  /\ last' = [Call("WithFile") EXCEPT !.reader = reader]
  /\ UNCHANGED <<variant, err, params, cookies, Request, closed, clientCalled,
                 response, panicked, files>>

\* ------------------------------------------------------------- multipart
Boundaries == {"b0f1"}           \* the boundary multipart.NewWriter picks
FormDataContentType(boundary) == "multipart/form-data; boundary=" \o boundary

Part(field, fileName, ctype) ==
  [field |-> field, filename |-> fileName, ctype |-> ctype, src |-> "",
   complete |-> FALSE]

\* CreateFormFile(writer, field, fileName, contentType...): starts a file part
CreateFormFile(field, fileName, contentType, fails) ==
  IF fails
  THEN [ok |-> FALSE, part |-> Part(field, "", ""), err |-> Err("CreateFormFile", field)]
  ELSE [ok |-> TRUE,
        part |-> Part(field, fileName,
                      IF Len(contentType) > 0 THEN contentType[1] ELSE ""),
        err |-> NilErr]

\* multipart.Writer.CreateFormField on a bytes.Buffer: starts a value part
CreateFormField(field) == Part(field, "", "")

\* io.Copy(part, reader): reading a closed file fails, any read may fail
Copy(part, reader, readFails, cl) ==
  IF readFails \/ (reader \in Files /\ reader \in cl)
  THEN [ok |-> FALSE, part |-> part, err |-> Err("io.Copy", reader)]
  ELSE [ok |-> TRUE, part |-> [part EXCEPT !.src = reader, !.complete = TRUE],
        err |-> NilErr]

ContentTypeInputs == { <<>>, <<"text/plain">> }

AttachFile(reader, contentType, createFails, readFails, boundary) ==
  /\ Live
  /\ last' = [Call("AttachFile") EXCEPT !.reader = reader]
  /\ IF reader \notin Files
     THEN \* r.err = err, with err the zero value of the local variable
          /\ err' = NilErr
          /\ UNCHANGED <<body, mime, closed>>
     ELSE LET fileName == Base(FilePath[reader])
              cf == CreateFormFile("file", fileName, contentType, createFails)
              cp == Copy(cf.part, reader, readFails, closed)
          IN  /\ closed' = closeReader(reader, closed)
              /\ IF ~cf.ok
                 THEN err' = cf.err /\ UNCHANGED <<body, mime>>
                 ELSE IF ~cp.ok
                 THEN err' = cp.err /\ UNCHANGED <<body, mime>>
                 ELSE /\ mime' = FormDataContentType(boundary)
                      /\ body' = Buffer(<<cp.part>>)
                      /\ UNCHANGED err
  /\ UNCHANGED <<variant, params, cookies, Request, clientCalled, response,
                 panicked, files>>

\* the values a field of the map passed to AttachFiles can map to:
\* len = len(values), v0 = values[0], v1 = values[1] (a string iff v1str)
FieldNames == <<"avatar", "note", "doc">>
Fields == { FieldNames[i] : i \in 1..NumFields }
Values(len, v0, v1str, v1, createFails, readFails) ==
  [len |-> len, v0 |-> v0, v1str |-> v1str, v1 |-> v1,
   createFails |-> createFails, readFails |-> readFails]
ValueLists ==
  { Values(0, "", FALSE, "", FALSE, FALSE),
    Values(1, "F1", FALSE, "", FALSE, FALSE),
    Values(2, "F2", TRUE, "image/png", FALSE, FALSE),
    Values(2, "F1", FALSE, "", FALSE, FALSE),
    Values(1, NotAReader, FALSE, "", FALSE, FALSE),
    Values(1, "R1", FALSE, "", FALSE, FALSE),
    Values(1, "F2", FALSE, "", FALSE, TRUE),
    Values(1, "F1", FALSE, "", TRUE, FALSE) }
FilesInputs == UNION { [fs -> ValueLists] : fs \in SUBSET Fields }
Orders(S) == { o \in [1..Cardinality(S) -> S] :
                 \A i, j \in 1..Cardinality(S) : i # j => o[i] # o[j] }

\* `if len(values) == 0 { r.err = ErrorEmptyListValues; return r }`
emptyValuesSkipped(acc) == [acc EXCEPT !.err = ErrorEmptyListValues]
emptyValues(acc) == [acc EXCEPT !.err = ErrorEmptyListValues, !.returned = TRUE]

\* one iteration of the loop of AttachFiles over the field `field`
AttachStep(acc, field, values, cl) ==
  IF values.len = 0
  THEN emptyValues(acc)
  ELSE IF values.v0 \notin Readers
  THEN [acc EXCEPT !.err = Err("value is not an interface io.Reader", field)]
  ELSE IF values.len > 1 /\ ~values.v1str
  THEN [acc EXCEPT !.err = Err("value is not a string", field),
                   !.contentType = ""]
  ELSE
    LET ct == IF values.len > 1 THEN values.v1 ELSE acc.contentType
        isFile == values.v0 \in Files
        cf == IF isFile
              THEN CreateFormFile(field, Base(FilePath[values.v0]), <<ct>>,
                                  values.createFails)
              ELSE [ok |-> TRUE, part |-> CreateFormField(field), err |-> NilErr]
        cp == Copy(cf.part, values.v0, values.readFails, cl)
        a1 == [acc EXCEPT !.contentType = ct,
                          !.closeReaders = IF isFile THEN Append(@, values.v0) ELSE @]
    IN  IF ~cf.ok THEN [a1 EXCEPT !.err = cf.err]
        ELSE IF ~cp.ok THEN [a1 EXCEPT !.err = cp.err, !.parts = Append(@, cp.part)]
        ELSE [a1 EXCEPT !.parts = Append(@, cp.part)]

\* the loop with `break` where the code has `continue`
RECURSIVE AttachLoopBreak(_, _, _, _)
AttachLoopBreak(acc, order, i, cl) ==
  IF i > Len(order) \/ acc.returned THEN acc
  ELSE LET a == AttachStep(acc, order[i], files[order[i]], cl)
       IN  IF a.err # acc.err THEN a ELSE AttachLoopBreak(a, order, i + 1, cl)

\* the loop `for field, values := range files`, visiting the fields in `order`
RECURSIVE AttachLoop(_, _, _, _)
AttachLoop(acc, order, i, cl) ==
  IF i > Len(order) \/ acc.returned THEN acc
  ELSE AttachLoop(AttachStep(acc, order[i], files[order[i]], cl),
                  order, i + 1, cl)

RECURSIVE closeAll(_, _)
closeAll(readers, cl) ==
  IF Len(readers) = 0 THEN cl
  ELSE closeAll(Tail(readers), closeReader(Head(readers), cl))

AttachFiles(order, boundary) ==
  /\ Live
  /\ last' = [Call("AttachFiles") EXCEPT !.order = order]
  /\ LET acc == AttachLoop([err |-> err, parts |-> <<>>, contentType |-> "",
                            closeReaders |-> <<>>, returned |-> FALSE],
                           order, 1, closed)
     IN  /\ err' = acc.err
         /\ IF acc.returned
            THEN /\ UNCHANGED <<mime, body>>
                 \* revision 2 closes in deferred calls, revision 1 after the loop
                 /\ closed' = IF variant = 2 THEN closeAll(acc.closeReaders, closed)
                              ELSE closed
            ELSE /\ mime' = FormDataContentType(boundary)
                 /\ body' = Buffer(acc.parts)
                 /\ closed' = closeAll(acc.closeReaders, closed)
  /\ UNCHANGED <<variant, params, cookies, Request, clientCalled, response,
                 panicked, files>>

\* ------------------------------------------------------------- dispatch
ValidMethod(method) == method \in {"GET", "HEAD", "POST", "PUT", "PATCH",
                                   "DELETE", "TRACE", "OPTIONS", "CONNECT"}
ValidURI(uri) == uri # "://example.test"

\* http.CanonicalHeaderKey on the header names of the model
CanonicalHeaderKey(k) == IF k = "content-type" THEN "Content-Type" ELSE k

\* http.Header.Set(key, value)
HeaderSet(h, key, value) ==
  [x \in DOMAIN h \cup {CanonicalHeaderKey(key)} |->
     IF x = CanonicalHeaderKey(key) THEN value ELSE h[x]]

\* the variadic headers argument: absent, or one http.Header
HeadersInputs ==
  { <<>>,
    <<[k \in {"Content-Type"} |-> <<"text/csv", "text/html">>]>>,
    <<[k \in {"content-type"} |-> <<"text/xml">>]>>,
    <<[k \in {"X-Trace"} |-> <<"t1">>]>>,
    <<[k \in {"Content-Type"} |-> <<>>]>> }
HeaderOrders(headers) ==
  IF Len(headers) = 0 THEN { <<>> } ELSE Orders(DOMAIN headers[1])

\* the loop `for key, val := range headers[0]`; val[0] of an empty list panics
RECURSIVE applyHeaders(_, _, _, _)
applyHeaders(req, h, horder, i) ==
  IF i > Len(horder) THEN [Request |-> req, panic |-> FALSE]
  ELSE IF Len(h[horder[i]]) = 0 THEN [Request |-> req, panic |-> TRUE]
  ELSE applyHeaders([req EXCEPT !.header = HeaderSet(@, horder[i], h[horder[i]][1])],
                    h, horder, i + 1)

\* prepareRequest with the builder's content type set after the extra headers
prepareRequestMimeLast(method, uri, headers, horder) ==
  IF ~ValidMethod(method) \/ ~ValidURI(uri)
  THEN [Request |-> NilRequest, err |-> Err("http.NewRequest", method),
        panic |-> FALSE]
  ELSE
    LET r0 == [built |-> TRUE, method |-> method, uri |-> uri, query |-> params,
               header |-> NoHeaders, body |-> body,
               nopCloser |-> (body.kind # "nil" /\
                              ~(body.kind = "reader" /\ body.rid \in Closers)),
               cookies |-> <<>>]
        ah == IF Len(headers) > 0 THEN applyHeaders(r0, headers[1], horder, 1)
              ELSE [Request |-> r0, panic |-> FALSE]
        r1 == IF mime # ""
              THEN [ah.Request EXCEPT !.header = HeaderSet(@, "Content-Type", mime)]
              ELSE ah.Request
    IN  [Request |-> r1, err |-> NilErr, panic |-> ah.panic]

prepareRequest(method, uri, headers, horder) ==
  IF ~ValidMethod(method)
  THEN [Request |-> NilRequest, err |-> Err("net/http: invalid method", method),
        panic |-> FALSE]
  ELSE IF ~ValidURI(uri)
  THEN [Request |-> NilRequest, err |-> Err("parse: missing protocol scheme", uri),
        panic |-> FALSE]
  ELSE
    LET isReadCloser == body.kind = "reader" /\ body.rid \in Closers
        r0 == [built |-> TRUE, method |-> method, uri |-> uri, query |-> params,
               header |-> NoHeaders, body |-> body,
               nopCloser |-> (body.kind # "nil" /\ ~isReadCloser),
               cookies |-> <<>>]
        r1 == IF mime # ""
              THEN [r0 EXCEPT !.header = HeaderSet(@, "Content-Type", mime)]
              ELSE r0
        ah == IF Len(headers) > 0 THEN applyHeaders(r1, headers[1], horder, 1)
              ELSE [Request |-> r1, panic |-> FALSE]
    IN  [Request |-> ah.Request, err |-> NilErr, panic |-> ah.panic]

\* r.Request.AddCookie on a nil *http.Request dereferences nil
prepareCookies(req, cs) ==
  IF Len(cs) = 0 THEN [Request |-> req, panic |-> FALSE]
  ELSE IF ~req.built THEN [Request |-> req, panic |-> TRUE]
  ELSE [Request |-> [req EXCEPT !.cookies = @ \o cs], panic |-> FALSE]

\* what the injected client answers
ClientResults == { [Response |-> "200 OK", err |-> NilErr],
                   [Response |-> NilResponse, err |-> Err("transport", "")] }

\* `if r.err != nil` at the top of Do
shortCircuitsNever == FALSE
shortCircuits == err # NilErr

\* `defer closeReader(r.body)`: runs when Do leaves, whatever the exit
closeOnSend(exit) == IF exit = "sent" THEN closeBody(body, closed) ELSE closed
closeOnExit(exit) == closeBody(body, closed)

Do(method, uri, headers, horder, result) ==
  /\ Live
  /\ LET c == [Call("Do") EXCEPT !.method = method, !.uri = uri,
                                 !.headers = headers]
         shell(e) == [Response |-> NilResponse,
                      err |-> IF variant = 1 THEN e ELSE NilErr]
     IN
     IF shortCircuits
     THEN /\ response' = shell(err)
          /\ last' = [c EXCEPT !.outcome = "error recorded"]
          /\ closed' = closeOnExit("error recorded")
          /\ UNCHANGED <<err, Request, clientCalled, panicked>>
     ELSE
       LET pr == prepareRequest(method, uri, headers, horder)
           pc == prepareCookies(pr.Request, cookies)
           e1 == IF pr.err # NilErr THEN pr.err ELSE err
       IN  IF pr.panic \/ pc.panic
           THEN /\ Request' = pr.Request
                /\ err' = e1
                /\ panicked' = TRUE
                /\ last' = [c EXCEPT !.outcome = "panic"]
                /\ closed' = closeOnExit("panic")
                /\ UNCHANGED <<response, clientCalled>>
           ELSE IF e1 # NilErr
           THEN /\ Request' = pc.Request
                /\ err' = e1
                /\ response' = shell(e1)
                /\ last' = [c EXCEPT !.outcome = "request not built"]
                /\ closed' = closeOnExit("request not built")
                /\ UNCHANGED <<clientCalled, panicked>>
           ELSE /\ Request' = pc.Request
                /\ clientCalled' = TRUE
                /\ response' = result
                /\ last' = [c EXCEPT !.outcome = "sent"]
                /\ closed' = closeOnExit("sent")
                /\ UNCHANGED <<err, panicked>>
  /\ UNCHANGED <<variant, body, params, mime, cookies, files>>

Get(uri, headers, horder, result) == Do("GET", uri, headers, horder, result)
DoHead(uri, result) == Do("HEAD", uri, <<>>, <<>>, result)

\* ------------------------------------------------------------- specifications
URIInputs == {"http://example.test/x", "://example.test"}
TargetInputs == { <<"POST", "http://example.test/x">>,
                  <<"POST", "://example.test">>,
                  <<"BAD METHOD", "http://example.test/x">> }
ReaderInputs == {"F1", "R1"}

\* the builder with every handler; AttachFiles is given a one-field map
OneFieldInputs ==
  { [f \in {FieldNames[1]} |-> Values(2, "F2", TRUE, "image/png", FALSE, FALSE)],
    [f \in {FieldNames[1]} |-> Values(0, "", FALSE, "", FALSE, FALSE)] }

Init == InitBuilder /\ files \in OneFieldInputs

ConfigNext ==
  \/ \E cs \in CookieInputs : SetCookies(cs)
  \/ \E ps \in ValuesInputs, data \in ValuesInputs : With(ps, data)
  \/ \E ps \in ValuesInputs : WithQuery(ps)
  \/ \E data \in ValuesInputs : WithForm(data)
  \/ \E data \in JsonInputs : Json(data)
  \/ \E reader \in ReaderInputs : WithFile(reader)
  \/ \E reader \in ReaderInputs, ct \in ContentTypeInputs, cf, rf \in BOOLEAN,
        b \in Boundaries : AttachFile(reader, ct, cf, rf, b)
  \/ \E order \in Orders(DOMAIN files), b \in Boundaries : AttachFiles(order, b)

DoNext ==
  \/ \E target \in TargetInputs, headers \in HeadersInputs,
        result \in ClientResults :
        \E horder \in HeaderOrders(headers) :
           Do(target[1], target[2], headers, horder, result)
  \/ \E headers \in {<<>>, <<NoHeaders>>}, result \in ClientResults :
        Get("http://example.test/x", headers, <<>>, result)
  \/ \E uri \in URIInputs : DoHead(uri, [Response |-> "200 OK", err |-> NilErr])

Next == ConfigNext \/ DoNext

Spec == Init /\ [][Next]_vars

\* the builder handed every map over the field names, with the calls that
\* prepare an error, a body and a closed file before AttachFiles
InitFiles == InitBuilder /\ files \in FilesInputs

NextFiles ==
  \/ \E data \in {"str:a", "chan"} : Json(data)
  \/ \E rf \in BOOLEAN, b \in Boundaries : AttachFile("F1", <<>>, FALSE, rf, b)
  \/ \E order \in Orders(DOMAIN files), b \in Boundaries : AttachFiles(order, b)

SpecFiles == InitFiles /\ [][NextFiles]_vars
\* ------------------------------------------------------------- properties
ConfigOps == {"With", "WithQuery", "WithForm", "Json", "WithFile",
              "AttachFile", "AttachFiles", "SetCookies"}

\* C1: once an error is recorded, every later configuration call leaves the
\* body, the content type, the query string, the cookies and the error as
\* they were.
C1_ErrorIsSticky ==
  [][(err # NilErr /\ last'.op \in ConfigOps) =>
       (body' = body /\ mime' = mime /\ params' = params /\ cookies' = cookies
        /\ err' = err)]_vars

\* C2: a Do on a builder with a recorded error does not invoke the client,
\* constructs no http.Request and returns a Response without a transport
\* response.
C2_ErrorShortCircuitsDo ==
  [][(last'.op = "Do" /\ err # NilErr) =>
       (clientCalled' = clientCalled /\ Request' = Request
        /\ response'.Response = NilResponse /\ ~panicked')]_vars

C2_Witness ==
  /\ last.op = "Do" /\ last.outcome = "error recorded"
  /\ ValidMethod(last.method) /\ ValidURI(last.uri)
  /\ err # NilErr /\ ~clientCalled /\ Request = NilRequest
  /\ response.Response = NilResponse

\* C3: AttachFile with a reader that is no *os.File records an error and
\* leaves the body and the content type as they were.
C3_NonFileSourceFails ==
  [][(last'.op = "AttachFile" /\ last'.reader \notin Files) =>
       (err' # NilErr /\ body' = body /\ mime' = mime)]_vars

\* what the map handed to AttachFiles says about each field
NoEmptyList == \A f \in DOMAIN files : files[f].len > 0
FieldFails(f, cl) ==
  LET v == files[f] IN
    \/ v.v0 \notin Readers
    \/ v.len > 1 /\ ~v.v1str
    \/ v.v0 \in Files /\ v.createFails
    \/ v.readFails
    \/ v.v0 \in Files /\ v.v0 \in cl
FieldError(f) ==
  LET v == files[f] IN
    IF v.v0 \notin Readers THEN Err("value is not an interface io.Reader", f)
    ELSE IF v.len > 1 /\ ~v.v1str THEN Err("value is not a string", f)
    ELSE IF v.v0 \in Files /\ v.createFails THEN Err("CreateFormFile", f)
    ELSE Err("io.Copy", v.v0)
Last(S) == CHOOSE i \in S : \A j \in S : j <= i

\* C4: with no empty value list in the map, AttachFiles processes every
\* field: it sets the body to the envelope and the content type to the
\* multipart type, the envelope holds the part of every field that succeeded,
\* and the recorded error is the error of the last field that failed.
C4_AttachFilesContinues ==
  [][(last'.op = "AttachFiles" /\ NoEmptyList) =>
       LET order == last'.order
           failing == { i \in 1..Len(order) : FieldFails(order[i], closed) }
       IN  /\ Len(order) = Cardinality(DOMAIN files)
           /\ body'.kind = "buffer"
           /\ \E b \in Boundaries : mime' = FormDataContentType(b)
           /\ \A i \in (1..Len(order)) \ failing :
                \E j \in 1..Len(body'.parts) :
                   /\ body'.parts[j].field = order[i]
                   /\ body'.parts[j].src = files[order[i]].v0
                   /\ body'.parts[j].complete
           /\ err' = IF failing = {} THEN err
                     ELSE FieldError(order[Last(failing)])]_vars

C4_Witness ==
  /\ last.op = "AttachFiles" /\ NoEmptyList /\ Len(last.order) >= 2
  /\ files[last.order[1]].v0 \notin Readers
  /\ files[last.order[2]].len > 1 /\ ~files[last.order[2]].v1str
  /\ err = Err("value is not a string", last.order[2])
  /\ body.kind = "buffer"

C4_WitnessPartial ==
  /\ last.op = "AttachFiles" /\ NoEmptyList /\ Len(last.order) >= 2
  /\ err = Err("value is not an interface io.Reader", last.order[1])
  /\ body.kind = "buffer" /\ Len(body.parts) = 1
  /\ body.parts[1].field = last.order[2] /\ body.parts[1].complete

\* C5: with an empty value list in the map, AttachFiles ends with the error
\* ErrorEmptyListValues and with the body and the content type it found.
C5_EmptyListFailsTheCall ==
  [][(last'.op = "AttachFiles" /\ ~NoEmptyList) =>
       (err' = ErrorEmptyListValues /\ body' = body /\ mime' = mime)]_vars

C5_Witness ==
  /\ last.op = "AttachFiles" /\ Len(last.order) >= 2
  /\ files[last.order[1]].len > 0 /\ FieldFails(last.order[1], {})
  /\ files[last.order[2]].len = 0
  /\ err = ErrorEmptyListValues
  /\ body.kind = "bytes" /\ mime = "application/json"

\* C6: every *os.File handed to AttachFile, or to AttachFiles as the first
\* value of a field, is closed when the call returns.
HandedFiles ==
  { files[f].v0 : f \in { g \in DOMAIN files : files[g].len > 0 /\ files[g].v0 \in Files } }
C6_SourcesClosed ==
  /\ last.op = "AttachFiles" => HandedFiles \subseteq closed
  /\ (last.op = "AttachFile" /\ last.reader \in Files) => last.reader \in closed

\* C7: when Do returns, a body reader that can be closed has been closed,
\* whichever way Do left.
C7_BodyClosedAfterDo ==
  (last.op = "Do" /\ body.kind = "reader" /\ body.rid \in Closers)
     => body.rid \in closed

C7_Witness ==
  /\ last.op = "Do" /\ last.outcome = "request not built"
  /\ body = CallerReader("F1") /\ "F1" \in closed

\* json.Unmarshal on the documents of the model
Unmarshal(text) == IF text = "1" THEN "int:1"
                   ELSE IF text = "\"a\"" THEN "str:a"
                   ELSE "invalid"
Serializable(data) == data # "chan"

\* C8: Json with data that cannot be encoded records the encoding error and
\* leaves the body and the content type as they were; with data that can be
\* encoded it sets the content type to application/json and the body to the
\* document that decodes to the data.
C8_JsonFrame ==
  [][last'.op = "Json" =>
       IF Serializable(last'.data)
       THEN /\ mime' = "application/json"
            /\ body'.kind = "bytes"
            /\ Unmarshal(body'.text) = last'.data
       ELSE /\ err' # NilErr /\ err'.kind = "json: unsupported type"
            /\ body' = body /\ mime' = mime]_vars

C8_Witness ==
  /\ last.op = "Json" /\ last.data = "chan"
  /\ err = Err("json: unsupported type", "chan")
  /\ body.kind = "strings" /\ mime = "application/x-www-form-urlencoded"

\* the Content-Type the extra headers of the last call give, if any
ExtraContentType ==
  IF Len(last.headers) = 0 THEN {}
  ELSE { last.headers[1][k][1] :
           k \in { x \in DOMAIN last.headers[1] :
                     CanonicalHeaderKey(x) = "Content-Type" } }

\* C9: the request handed to the client carries the Content-Type of the extra
\* headers if they give one, otherwise the content type of the builder,
\* otherwise none; with no body configured and no extra headers it has an
\* empty body and no Content-Type.
C9_ContentTypeHeader ==
  (last.op = "Do" /\ clientCalled) =>
     /\ Request.built
     /\ IF ExtraContentType # {}
        THEN /\ "Content-Type" \in DOMAIN Request.header
             /\ Request.header["Content-Type"] \in ExtraContentType
        ELSE IF mime # ""
        THEN /\ "Content-Type" \in DOMAIN Request.header
             /\ Request.header["Content-Type"] = mime
        ELSE "Content-Type" \notin DOMAIN Request.header
     /\ (body = NoBody /\ mime = "" /\ Len(last.headers) = 0) =>
           (Request.body = NoBody /\ Request.header = NoHeaders)

C9_Witness ==
  /\ last.op = "Do" /\ clientCalled
  /\ mime = "application/json"
  /\ ExtraContentType = {"text/xml"}
  /\ Request.header["Content-Type"] = "text/xml"

\* C10: a Do with no recorded error whose request cannot be constructed
\* returns normally, whatever the pending cookies: it records the error,
\* does not invoke the client and returns a Response without a transport
\* response.
C10_FailedConstructionReturns ==
  [][(last'.op = "Do" /\ err = NilErr
      /\ (~ValidMethod(last'.method) \/ ~ValidURI(last'.uri))) =>
       (~panicked' /\ err' # NilErr /\ ~clientCalled'
        /\ response'.Response = NilResponse)]_vars
====
